---- MODULE Spec2Model ----
(***************************************************************************)
(* File Analysis Platform (src/my_agent.py): upload validation, prompt     *)
(* sanitization, report rendering and the Streamlit script that glues them.*)
(*                                                                         *)
(* Text is a sequence of one-character strings; a byte string is a         *)
(* run-length encoded sequence of records [b |-> 0..255, n |-> count], so  *)
(* that blobs longer than the 1024-byte text probe stay small.             *)
(***************************************************************************)
EXTENDS Integers, Sequences, FiniteSets, TLC

VARIABLES
    \* --- validate_uploaded_file applied to one blob (SpecValidate) ---
    vfile,      \* the blob handed to the validator: name, size, content, pos
    vfault,     \* the I/O failure (if any) the blob's read/seek raises
    vstart,     \* the blob as it was when the validator was called
    vret,       \* what the call left behind (see Returned)
    vpc,        \* "call" before the validator ran, "returned" after
    \* --- sanitize_prompt applied to one text (SpecSanitize) ---
    sin,        \* the raw text
    sout,       \* the results of sanitizing it, then of sanitizing the result
    \* --- generate_pdf_bytes applied to one narrative (SpecRender) ---
    rin,        \* the arguments and the fonts and failures the call meets
    rout,       \* what the call left behind (see PdfExcept)
    rpc,        \* "call" before generate_pdf_bytes ran, "returned" after
    \* --- the Streamlit script, run once per user interaction (Spec) ---
    language,       \* the sidebar's language radio
    upload,         \* the file held by st.file_uploader (NoFile: none)
    goal,           \* the text of the st.text_area
    pressed,        \* whether this run was started by the launch button
    pc,             \* the block the script run is about to execute
    uploaded_file,  \* the script's variable of that name
    df,             \* the script's variable of that name (NoTable: None)
    screen,         \* what this run has put on the page, in order
    calls,          \* the collaborators this run has invoked, in order
    pdf,            \* the run's generate_pdf_bytes call, if it made one
    log,            \* what this run has written to secure_activity.log
    lfault          \* the exception (if any) this run's launch met, and where

vvars == <<vfile, vfault, vstart, vret, vpc>>
svars == <<sin, sout>>
rvars == <<rin, rout, rpc>>
widgets == <<language, upload, goal, pressed>>
avars ==
    <<widgets, pc, uploaded_file, df, screen, calls, pdf, log, lfault>>
vars == <<vvars, svars, rvars, avars>>

\* ------------------------------------------------------------------ text

UpperChars == <<"A","B","C","D","E","F","G","H","I","J","K","L","M",
                "N","O","P","Q","R","S","T","U","V","W","X","Y","Z">>
LowerChars == <<"a","b","c","d","e","f","g","h","i","j","k","l","m",
                "n","o","p","q","r","s","t","u","v","w","x","y","z">>

\* str.lower() of one character (ASCII letters; every other modelled
\* character is its own lower case)
UpperSet == { UpperChars[i] : i \in 1..26 }
LowerMap ==
    [c \in UpperSet |-> LowerChars[CHOOSE i \in 1..26 : UpperChars[i] = c]]
LowerChar(c) == IF c \in UpperSet THEN LowerMap[c] ELSE c

\* str.lower()
Lower(s) == [i \in 1..Len(s) |-> LowerChar(s[i])]

\* str.endswith(suffix)
EndsWith(s, suffix) ==
    /\ Len(suffix) <= Len(s)
    /\ SubSeq(s, Len(s) - Len(suffix) + 1, Len(s)) = suffix

\* str.startswith(prefix)
StartsWith(s, prefix) ==
    /\ Len(prefix) <= Len(s)
    /\ SubSeq(s, 1, Len(prefix)) = prefix

\* the whitespace of str.strip() and of \s in Python's re (the modelled part)
Spaces == {" ", "\n", "\t", "\r"}
IsSpace(c) == c \in Spaces

\* the length of the longest prefix of s made of characters in set
RECURSIVE Span(_, _)
Span(s, set) ==
    IF s # <<>> /\ Head(s) \in set THEN 1 + Span(Tail(s), set) ELSE 0

Reverse(s) == [i \in 1..Len(s) |-> s[Len(s) + 1 - i]]

\* str.strip()
Strip(s) ==
    LET l == Span(s, Spaces)
        r == Span(Reverse(s), Spaces)
    IN  IF l = Len(s) THEN <<>> ELSE SubSeq(s, l + 1, Len(s) - r)

\* str.split(sep) for a one-character sep: the pieces between the
\* separators, empty ones included, at least one
RECURSIVE SplitFrom(_, _, _)
SplitFrom(s, sep, cur) ==
    IF s = <<>> THEN <<cur>>
    ELSE IF Head(s) = sep THEN <<cur>> \o SplitFrom(Tail(s), sep, <<>>)
    ELSE SplitFrom(Tail(s), sep, Append(cur, Head(s)))
Split(s, sep) == SplitFrom(s, sep, <<>>)

\* str.replace(old, ''): the occurrences of old are removed from left to
\* right, none overlapping another
RECURSIVE Remove(_, _)
Remove(s, old) ==
    IF s = <<>> THEN <<>>
    ELSE IF StartsWith(s, old) THEN Remove(SubSeq(s, Len(old) + 1, Len(s)), old)
    ELSE <<Head(s)>> \o Remove(Tail(s), old)

\* ----------------------------------------------------------------- bytes

RECURSIVE ByteLen(_)
\* len(bytes)
ByteLen(c) == IF c = <<>> THEN 0 ELSE Head(c).n + ByteLen(Tail(c))

\* run-length normal form: no empty run, no two adjacent runs of one byte
RECURSIVE Norm(_)
Norm(c) ==
    IF c = <<>> THEN <<>>
    ELSE IF Head(c).n = 0 THEN Norm(Tail(c))
    ELSE LET rest == Norm(Tail(c)) IN
         IF rest # <<>> /\ Head(rest).b = Head(c).b
         THEN <<[b |-> Head(c).b, n |-> Head(c).n + Head(rest).n]>> \o Tail(rest)
         ELSE <<Head(c)>> \o rest

RECURSIVE Drop(_, _)
\* bytes[k:]
Drop(c, k) ==
    IF c = <<>> \/ k = 0 THEN c
    ELSE IF Head(c).n <= k THEN Drop(Tail(c), k - Head(c).n)
    ELSE <<[b |-> Head(c).b, n |-> Head(c).n - k]>> \o Tail(c)

RECURSIVE Take(_, _)
\* bytes[:k]
Take(c, k) ==
    IF c = <<>> \/ k = 0 THEN <<>>
    ELSE IF Head(c).n <= k THEN <<Head(c)>> \o Take(Tail(c), k - Head(c).n)
    ELSE <<[b |-> Head(c).b, n |-> k]>>

\* a byte string literal, one run per byte
Bytes(s) == Norm([i \in 1..Len(s) |-> [b |-> s[i], n |-> 1]])

Min(a, b) == IF a < b THEN a ELSE b

\* io.BytesIO.read(size): the bytes from the read position, and the new
\* position (never beyond the end; a position past the end reads nothing)
ReadToEnd(f, size) == Norm(Drop(f.content, f.pos))
ReadBytes(f, size) == Norm(Take(Drop(f.content, f.pos), size))
ReadPos(f, size) ==
    IF f.pos >= ByteLen(f.content) THEN f.pos
    ELSE Min(f.pos + size, ByteLen(f.content))

\* bytes.decode('utf-8'), strict: the decoder's state is "ok" between
\* characters, "bad" after an invalid byte, else the continuation bytes
\* still needed and the range allowed for the next one
Utf8Start == [need |-> 0, lo |-> 0, hi |-> 0]
Utf8Bad == [need |-> -1, lo |-> 0, hi |-> 0]
Utf8Step(s, b) ==
    IF s = Utf8Bad THEN Utf8Bad
    ELSE IF s.need = 0 THEN
        IF b <= 127 THEN Utf8Start
        ELSE IF b >= 194 /\ b <= 223 THEN [need |-> 1, lo |-> 128, hi |-> 191]
        ELSE IF b = 224 THEN [need |-> 2, lo |-> 160, hi |-> 191]
        ELSE IF b = 237 THEN [need |-> 2, lo |-> 128, hi |-> 159]
        ELSE IF b >= 225 /\ b <= 239 THEN [need |-> 2, lo |-> 128, hi |-> 191]
        ELSE IF b = 240 THEN [need |-> 3, lo |-> 144, hi |-> 191]
        ELSE IF b >= 241 /\ b <= 243 THEN [need |-> 3, lo |-> 128, hi |-> 191]
        ELSE IF b = 244 THEN [need |-> 3, lo |-> 128, hi |-> 143]
        ELSE Utf8Bad
    ELSE IF b >= s.lo /\ b <= s.hi
         THEN IF s.need = 1 THEN Utf8Start
              ELSE [need |-> s.need - 1, lo |-> 128, hi |-> 191]
         ELSE Utf8Bad

RECURSIVE Utf8Run(_, _, _)
\* the decoder after n copies of byte b (a state the byte leaves alone is
\* left alone by every further copy)
Utf8Run(s, b, n) ==
    IF n = 0 \/ Utf8Step(s, b) = s THEN s
    ELSE Utf8Run(Utf8Step(s, b), b, n - 1)

RECURSIVE Utf8Scan(_, _)
Utf8Scan(s, c) ==
    IF c = <<>> THEN s
    ELSE Utf8Scan(Utf8Run(s, Head(c).b, Head(c).n), Tail(c))

\* chunk.decode('utf-8') does not raise UnicodeDecodeError
Utf8Decodes(c) == Utf8Scan(Utf8Start, c) = Utf8Start

\* ------------------------------------------------------------ exceptions

\* an exception is [cls |-> its class, msg |-> str(e)]; NoExc stands for none
NoExc == [cls |-> "none", msg |-> ""]

\* the base class of each Python exception class that occurs here
BaseOf(cls) ==
    CASE cls = "UnicodeDecodeError" -> "ValueError"
      [] cls = "ValueError" -> "Exception"
      [] cls = "OSError" -> "Exception"
      [] cls = "TypeError" -> "Exception"
      [] cls = "RuntimeError" -> "Exception"
      [] cls = "UnicodeEncodeError" -> "ValueError"
      [] cls = "Exception" -> "BaseException"
      [] OTHER -> "object"

RECURSIVE IsInstance(_, _)
\* whether `except handler:` catches an exception of class cls
IsInstance(cls, handler) ==
    \/ cls = handler
    \/ cls # "object" /\ IsInstance(BaseOf(cls), handler)

\* --------------------------------------------------------------- logging

\* logging.basicConfig(filename='secure_activity.log', level=logging.ERROR):
\* the numeric levels of the logging module and the threshold of the root
\* logger
LevelNo(level) == IF level = "ERROR" THEN 40 ELSE 30
LogThreshold == LevelNo("ERROR")

\* logging.warning(f"{text}{e}") / logging.error(f"{text}{e}"): the records
\* the call appends to the log file (none below the threshold)
Logged(level, text, e) ==
    IF LevelNo(level) >= LogThreshold
    THEN <<[level |-> level, text |-> text, exc |-> e]>>
    ELSE <<>>


\* --------------------------------------------------------- the validator

valid_extensions == << <<".", "c", "s", "v">>, <<".", "x", "l", "s", "x">> >>
MAX_SIZE_MB == 200
HEADER_LEN == 4
CHUNK_LEN == 1024
\* b'PK\x03\x04'
ZipMagic == Bytes(<<80, 75, 3, 4>>)

MsgInvalidType == <<"Invalid file type. Only CSV and Excel are allowed.">>
MsgTooLarge == <<"File size exceeds limit (", ToString(MAX_SIZE_MB), "MB).">>
MsgBadExcel == <<"Security Check Failed: Invalid file signature for Excel.">>
MsgBadCsv == <<"Security Check Failed: File is not a valid text/CSV file.">>
MsgValidationError(e) == <<"Validation Error: ", e.msg>>
MsgValid == <<"Valid">>

\* What one call of the validator leaves behind: the returned pair (ok, msg),
\* the blob with its read position, the read/seek calls made on the blob in
\* order, and the exception that left the function (NoExc when it returned).
Returned(f, ok, msg, io) ==
    [ok |-> ok, msg |-> msg, file |-> f, io |-> io, raised |-> NoExc]
Propagated(f, e, io) ==
    [ok |-> FALSE, msg |-> <<>>, file |-> f, io |-> io, raised |-> e]

\* the k-th read/seek call on the blob raises flt.exc (NoFault: none does)
NoFault == [at |-> 0, exc |-> NoExc]
Raises(flt, k) == flt.at = k

\* uploaded_file.read(size) and uploaded_file.seek(offset): the blob after
\* the call (a call that raises leaves the blob as it was)
AfterRead(f, size) == [f EXCEPT !.pos = ReadPos(f, size)]
SeekNowhere(f, offset) == f
AfterSeek(f, offset) == [f EXCEPT !.pos = offset]

\* except Exception as e: return False, f"Validation Error: {str(e)}"
OuterHandlerReraise(f, e, io) == Propagated(f, e, io)
OuterHandler(f, e, io) ==
    IF IsInstance(e.cls, "Exception")
    THEN Returned(f, FALSE, MsgValidationError(e), io)
    ELSE Propagated(f, e, io)

\* except UnicodeDecodeError: return False, "... not a valid text/CSV file."
InnerHandler(f, e, io) ==
    IF IsInstance(e.cls, "UnicodeDecodeError")
    THEN Returned(f, FALSE, MsgBadCsv, io)
    ELSE OuterHandler(f, e, io)

DecodeError == [cls |-> "UnicodeDecodeError", msg |-> "'utf-8' codec can't decode"]

\* 3. Magic Byte Verification (the try block)
SignatureStep(f, filename, flt) ==
    LET header == ReadBytes(f, HEADER_LEN)
        f1 == AfterRead(f, HEADER_LEN)
        f2 == AfterSeek(f1, 0)
        chunk == ReadBytes(f2, CHUNK_LEN)
        f3 == AfterRead(f2, CHUNK_LEN)
        f4 == AfterSeek(f3, 0)
    IN  IF Raises(flt, 1) THEN OuterHandler(f, flt.exc, <<"read">>)
        ELSE IF Raises(flt, 2)
        THEN OuterHandler(f1, flt.exc, <<"read", "seek">>)
        ELSE IF EndsWith(filename, valid_extensions[2]) /\ header # ZipMagic
        THEN Returned(f2, FALSE, MsgBadExcel, <<"read", "seek">>)
        ELSE IF EndsWith(filename, valid_extensions[1])
        THEN IF Raises(flt, 3)
             THEN InnerHandler(f2, flt.exc, <<"read", "seek", "read">>)
             ELSE IF Raises(flt, 4)
             THEN InnerHandler(f3, flt.exc, <<"read", "seek", "read", "seek">>)
             ELSE IF ~Utf8Decodes(chunk)
             THEN InnerHandler(f4, DecodeError, <<"read", "seek", "read", "seek">>)
             ELSE Returned(f4, TRUE, MsgValid, <<"read", "seek", "read", "seek">>)
        ELSE Returned(f2, TRUE, MsgValid, <<"read", "seek">>)

\* 1. Extension Check
ExtensionAllowed(filename) ==
    \E i \in 1..Len(valid_extensions) : EndsWith(filename, valid_extensions[i])

\* 2. Size Check (Limit to 200MB)
SizeExceedsOrEquals(size) == size >= MAX_SIZE_MB * 1024 * 1024
SizeExceeds(size) == size > MAX_SIZE_MB * 1024 * 1024

validate_size_first(f, flt) ==
    LET filename == Lower(f.name) IN
    IF SizeExceeds(f.size)
    THEN Returned(f, FALSE, MsgTooLarge, <<>>)
    ELSE IF ~ExtensionAllowed(filename)
    THEN Returned(f, FALSE, MsgInvalidType, <<>>)
    ELSE SignatureStep(f, filename, flt)

validate_uploaded_file(f, flt) ==
    LET filename == Lower(f.name) IN
    IF ~ExtensionAllowed(filename)
    THEN Returned(f, FALSE, MsgInvalidType, <<>>)
    ELSE IF SizeExceeds(f.size)
    THEN Returned(f, FALSE, MsgTooLarge, <<>>)
    ELSE SignatureStep(f, filename, flt)

\* ------------------------------------- the validator on one blob at a time

MaxSlack == 3
MaxStartPos == 2

Names ==
    { <<"a", ".", "c", "s", "v">>, <<"A", ".", "C", "S", "V">>,
      <<"a", ".", "x", "l", "s", "x">>, <<"A", ".", "X", "l", "S", "x">>,
      <<"a", ".", "t", "x", "t">>, <<"a", "c", "s", "v">>,
      <<"a", ".", "c", "s", "v", ".", "e", "x", "e">> }

\* leading bytes: none, PK\x03\x04, PK\x03 (cut short), PK\x05\x06
Heads == { <<>>, <<80, 75, 3, 4>>, <<80, 75, 3>>, <<80, 75, 5, 6>> }
\* trailing bytes: none, U+00E9, its lead byte alone, 0xFF, U+20AC
Tails == { <<>>, <<195, 169>>, <<195>>, <<255>>, <<226, 130, 172>> }
\* lengths of the run of 'a' between them: none, or up to the text probe
PadLens == {0} \cup ((CHUNK_LEN - MaxSlack)..CHUNK_LEN)

Contents ==
    { Norm(Bytes(h) \o <<[b |-> 97, n |-> k]>> \o Bytes(t)) :
        h \in Heads, k \in PadLens, t \in Tails }

SizeLimit == MAX_SIZE_MB * 1024 * 1024

IOErrors ==
    { [cls |-> "OSError", msg |-> "read failed"],
      [cls |-> "ValueError", msg |-> "I/O operation on closed file."] }

Faults == {NoFault} \cup [at : 1..4, exc : IOErrors]

NoReturn == Returned([name |-> <<>>, size |-> 0, content |-> <<>>, pos |-> 0],
                     FALSE, <<>>, <<>>)

\* is_valid, msg = validate_uploaded_file(uploaded_file)
Validate ==
    /\ vpc = "call"
    /\ vret' = validate_uploaded_file(vfile, vfault)
    /\ vfile' = vret'.file
    /\ vpc' = "returned"
    /\ UNCHANGED <<vfault, vstart, svars, rvars, avars>>

\* the failure kinds of the verdict, read off the returned pair
Kind(r) ==
    IF r.ok THEN "pass"
    ELSE IF r.msg = MsgInvalidType THEN "UnsupportedType"
    ELSE IF r.msg = MsgTooLarge THEN "TooLarge"
    ELSE IF r.msg \in {MsgBadExcel, MsgBadCsv} THEN "SignatureMismatch"
    ELSE IF r.msg # <<>> /\ r.msg[1] = "Validation Error: " THEN "ValidationError"
    ELSE "none"

HasReturned == vpc = "returned" /\ vret.raised = NoExc

\* the name ends, letter case aside, in the extension ext
NameEndsIn(name, ext) ==
    /\ Len(name) >= Len(ext)
    /\ \A i \in 1..Len(ext) :
         LowerChar(name[Len(name) - Len(ext) + i]) = ext[i]
IsCsvName(name) == NameEndsIn(name, <<".", "c", "s", "v">>)
IsXlsxName(name) == NameEndsIn(name, <<".", "x", "l", "s", "x">>)
AllowListed(name) == IsCsvName(name) \/ IsXlsxName(name)

\* C3 as stated: whenever the validator returns, whatever the verdict and the
\* starting read position, the read position is at the start and the bytes
\* are the ones the blob had.
C3_AlwaysAtStart ==
    HasReturned => vfile.pos = 0 /\ vfile.content = vstart.content

\* C3, amended: whenever the validator returns, the bytes are unmodified;
\* the read position is at the start when the verdict is pass or
\* SignatureMismatch, and also for every verdict on a blob handed over at
\* the start whose read/seek calls did not raise; on UnsupportedType and
\* TooLarge the blob is not touched, so the position is where it was.
C3_PositionRestored ==
    HasReturned =>
        /\ vfile.content = vstart.content
        /\ vfile.name = vstart.name /\ vfile.size = vstart.size
        /\ Kind(vret) \in {"pass", "SignatureMismatch"} => vfile.pos = 0
        /\ (vstart.pos = 0 /\ vfault = NoFault) => vfile.pos = 0
        /\ Kind(vret) \in {"UnsupportedType", "TooLarge"} =>
              vfile.pos = vstart.pos /\ vret.io = <<>>

C3_Witness ==
    /\ HasReturned /\ Kind(vret) = "pass"
    /\ vstart.pos > 0 /\ vfile.pos = 0
    /\ ByteLen(vstart.content) > 1024 /\ Len(vret.io) = 4

\* C4: the checks run in the order extension, size, signature and stop at
\* the first failure: a name outside the allow-list (letter case aside) gets
\* UnsupportedType whatever the size and content, an oversized blob is never
\* judged by its signature, and the blob is read only when the extension and
\* the size both passed.
C4_CheckOrder ==
    HasReturned =>
        /\ ~AllowListed(vstart.name) <=> Kind(vret) = "UnsupportedType"
        /\ (AllowListed(vstart.name) /\ vstart.size > 200 * 1024 * 1024)
              <=> Kind(vret) = "TooLarge"
        /\ vret.io # <<>> =>
              AllowListed(vstart.name) /\ vstart.size <= 200 * 1024 * 1024
        /\ Kind(vret) \in {"SignatureMismatch", "ValidationError", "pass"} =>
              AllowListed(vstart.name) /\ vstart.size <= 200 * 1024 * 1024

C4_Witness ==
    /\ HasReturned /\ Kind(vret) = "UnsupportedType"
    /\ vstart.name = <<"a", ".", "c", "s", "v", ".", "e", "x", "e">>
    /\ vstart.size > 200 * 1024 * 1024
    /\ vstart.content = Bytes(<<255>>)
    /\ vret.io = <<>>

\* C5 as stated: every blob declaring more than 200 MiB gets TooLarge, and
\* one of exactly 200 MiB does not.
C5_TooLargeAlways ==
    HasReturned =>
        /\ vstart.size > 200 * 1024 * 1024 => Kind(vret) = "TooLarge"
        /\ vstart.size = 200 * 1024 * 1024 => Kind(vret) # "TooLarge"

\* C5, amended: every blob with an allow-listed extension that declares more
\* than 200 MiB gets TooLarge whatever its content (which is not read); a
\* blob of at most 200 MiB, exactly 200 MiB included, never gets TooLarge.
C5_TooLarge ==
    HasReturned =>
        /\ (AllowListed(vstart.name) /\ vstart.size > 200 * 1024 * 1024) =>
              Kind(vret) = "TooLarge" /\ vret.io = <<>>
        /\ vstart.size <= 200 * 1024 * 1024 => Kind(vret) # "TooLarge"

C5_Witness ==
    /\ HasReturned /\ Kind(vret) = "pass"
    /\ vstart.size = 200 * 1024 * 1024

C9_IOFailureMasked ==
    (vpc = "returned" /\ vfault.at # 0 /\ Len(vret.io) >= vfault.at) =>
        /\ vret.raised = NoExc
        /\ ~vret.ok
        /\ Kind(vret) = "ValidationError"
        /\ vret.msg = <<"Validation Error: ", vfault.exc.msg>>

C9_Witness ==
    /\ HasReturned /\ vfault.at = 4 /\ Len(vret.io) = 4
    /\ Kind(vret) = "ValidationError"
    /\ vfile.pos > 0

\* --------------------------------------------------------- the sanitizer

\* re.IGNORECASE on a literal letter: the character's simple lower case,
\* with the non-ASCII letters that Python's re folds onto ASCII ones
\* (U+017F long s, U+212A Kelvin sign, U+0130 and U+0131 dotted/dotless i)
FoldMap ==
    [c \in {"U+017F", "U+212A", "U+0130", "U+0131"} |->
        CASE c = "U+017F" -> "s" [] c = "U+212A" -> "k" [] OTHER -> "i"]
FoldCase(c) == IF c \in DOMAIN FoldMap THEN FoldMap[c] ELSE LowerChar(c)

patterns ==
    << <<"i", "g", "n", "o", "r", "e", " ", "p", "r", "e", "v", "i", "o",
         "u", "s", " ", "i", "n", "s", "t", "r", "u", "c", "t", "i", "o",
         "n", "s">>,
       <<"s", "y", "s", "t", "e", "m", " ", "o", "v", "e", "r", "r", "i",
         "d", "e">>,
       <<"d", "e", "l", "e", "t", "e", " ", "a", "l", "l", " ", "f", "i",
         "l", "e", "s">>,
       <<"s", "h", "o", "w", " ", "c", "o", "n", "f", "i", "g", "u", "r",
         "a", "t", "i", "o", "n">>,
       <<"r", "e", "v", "e", "a", "l", " ", "k", "e", "y", "s">> >>

\* the replacement "[REDACTED]"
StripToken == <<>>
RedactionToken == <<"[", "R", "E", "D", "A", "C", "T", "E", "D", "]">>

\* the regular expression (a literal phrase) matches s at index i
MatchesAt(pattern, s, i) ==
    /\ i + Len(pattern) - 1 <= Len(s)
    /\ \A k \in 1..Len(pattern) : FoldCase(s[i + k - 1]) = pattern[k]

RECURSIVE ReSubFrom(_, _, _, _)
\* re.sub scans left to right and replaces every non-overlapping match
ReSubFrom(pattern, repl, s, i) ==
    IF i > Len(s) THEN <<>>
    ELSE IF MatchesAt(pattern, s, i)
    THEN repl \o ReSubFrom(pattern, repl, s, i + Len(pattern))
    ELSE <<s[i]>> \o ReSubFrom(pattern, repl, s, i + 1)

\* re.sub(pattern, repl, s, flags=re.IGNORECASE)
ReSub(pattern, repl, s) == ReSubFrom(pattern, repl, s, 1)

RECURSIVE SanitizeFrom(_, _)
\* for pattern in patterns: cleaned_text = re.sub(pattern, ...), from the
\* k-th pattern on
SanitizeFrom(cleaned_text, k) ==
    IF k > Len(patterns) THEN cleaned_text
    ELSE SanitizeFrom(ReSub(patterns[k], RedactionToken, cleaned_text), k + 1)

RECURSIVE SanitizeDownFrom(_, _)
SanitizeDownFrom(cleaned_text, k) ==
    IF k < 1 THEN cleaned_text
    ELSE SanitizeDownFrom(ReSub(patterns[k], RedactionToken, cleaned_text), k - 1)

sanitize_last_first(text) == SanitizeDownFrom(text, Len(patterns))

sanitize_prompt(text) == SanitizeFrom(text, 1)

\* ------------------------------------- the sanitizer on one text at a time

MaxPieces == 3

\* the raw texts are built from these pieces: the five phrases, three of them
\* short of the letters they share with the phrase that can follow them, a
\* phrase in other letter case, plain text, and the redaction token itself
Pieces ==
    { <<"i", "g", "n", "o", "r", "e", " ", "p", "r", "e", "v", "i", "o",
          "u", "s", " ", "i", "n", "s", "t", "r", "u", "c", "t", "i", "o",
          "n", "s">>,
      <<"s", "y", "s", "t", "e", "m", " ", "o", "v", "e", "r", "r", "i",
          "d", "e">>,
      <<"d", "e", "l", "e", "t", "e", " ", "a", "l", "l", " ", "f", "i",
          "l", "e", "s">>,
      <<"s", "h", "o", "w", " ", "c", "o", "n", "f", "i", "g", "u", "r",
          "a", "t", "i", "o", "n">>,
      <<"r", "e", "v", "e", "a", "l", " ", "k", "e", "y", "s">>,
      <<"i", "g", "n", "o", "r", "e", " ", "p", "r", "e", "v", "i", "o",
          "u", "s", " ", "i", "n", "s", "t", "r", "u", "c", "t", "i", "o",
          "n">>,
      <<"s", "y", "s", "t", "e", "m", " ", "o", "v", "e", "r", "r", "i">>,
      <<"d", "e", "l", "e", "t", "e", " ", "a", "l", "l", " ", "f", "i",
          "l", "e">>,
      <<"R", "E", "V", "E", "A", "L", " ", "K", "e", "y", "s">>,
      <<"P", "l", "e", "a", "s", "e", " ">>,
      <<"s">>,
      <<"[", "R", "E", "D", "A", "C", "T", "E", "D", "]">>,
      <<"U+017F">> }

RECURSIVE Join(_)
Join(ps) == IF ps = <<>> THEN <<>> ELSE Head(ps) \o Join(Tail(ps))

Texts == { Join(ps) : ps \in UNION { [1..n -> Pieces] : n \in 0..MaxPieces } }

\* user_intent = sanitize_prompt(user_intent_raw), and the same again on the
\* result
Sanitize ==
    /\ Len(sout) < 2
    /\ sout' = Append(sout, sanitize_prompt(IF sout = <<>> THEN sin
                                           ELSE sout[Len(sout)]))
    /\ UNCHANGED <<sin, vvars, rvars, avars>>

\* the start indices at which the k-th phrase occurs in x, letter case aside
Occurrences(x, k) == { i \in 1..Len(x) : MatchesAt(patterns[k], x, i) }

\* the occurrences (start index i of phrase k) overlap
Overlap(i, k, j, l) ==
    /\ i < j + Len(patterns[l])
    /\ j < i + Len(patterns[k])

RECURSIVE RenderFrom(_, _, _)
\* x from index i on, with every span of `spans` (pairs <<start, phrase>>)
\* replaced by [REDACTED] and every other character kept
RenderFrom(x, spans, i) ==
    IF i > Len(x) THEN <<>>
    ELSE IF \E sp \in spans : sp[1] = i
    THEN LET sp == CHOOSE sp \in spans : sp[1] = i IN
         <<"[", "R", "E", "D", "A", "C", "T", "E", "D", "]">> \o RenderFrom(x, spans, i + Len(patterns[sp[2]]))
    ELSE <<x[i]>> \o RenderFrom(x, spans, i + 1)

\* C8 as stated: of two overlapping occurrences the first-listed phrase is
\* the one redacted, so the redacted spans are the occurrences that no
\* occurrence of an earlier-listed phrase overlaps.
FirstListedSpans(x) ==
    LET occ == [k \in 1..Len(patterns) |-> Occurrences(x, k)] IN
    UNION { { <<i, k>> : i \in { i \in occ[k] :
                \A l \in 1..(k - 1) : \A j \in occ[l] :
                    ~Overlap(i, k, j, l) } } :
            k \in 1..Len(patterns) }

RECURSIVE AppliedSpans(_, _)
\* the occurrences of the first k phrases that are redacted when the phrases
\* are applied in listed order: those of phrase k that overlap no redacted
\* occurrence of an earlier phrase
AppliedSpans(x, k) ==
    IF k = 0 THEN {}
    ELSE LET before == AppliedSpans(x, k - 1) IN
         before \cup
         { <<i, k>> : i \in { i \in Occurrences(x, k) :
               \A sp \in before : ~Overlap(i, k, sp[1], sp[2]) } }

ChainText ==
    <<"i", "g", "n", "o", "r", "e", " ", "p", "r", "e", "v", "i", "o",
      "u", "s", " ", "i", "n", "s", "t", "r", "u", "c", "t", "i", "o",
      "n", "s", "y", "s", "t", "e", "m", " ", "o", "v", "e", "r", "r",
      "i", "d", "e", "l", "e", "t", "e", " ", "a", "l", "l", " ", "f",
      "i", "l", "e", "s">>
ChainResult ==
    <<"[", "R", "E", "D", "A", "C", "T", "E", "D", "]", "y", "s", "t",
      "e", "m", " ", "o", "v", "e", "r", "r", "i", "[", "R", "E", "D",
      "A", "C", "T", "E", "D", "]">>

\* C7: sanitizing is idempotent: sanitizing the sanitized text changes
\* nothing, also where phrases overlap or abut in the raw text.
C7_Idempotent == Len(sout) >= 2 => sout[2] = sout[1]

C7_Witness ==
    /\ Len(sout) = 2 /\ sin = ChainText
    /\ sout[1] # sin /\ sout[2] = sout[1]

\* C8 as stated: the result is the text with the occurrences of the listed
\* phrases replaced by [REDACTED], everything else kept in order, and of two
\* overlapping occurrences the first-listed phrase is the one redacted.
C8_FirstListedWins ==
    Len(sout) >= 1 => sout[1] = RenderFrom(sin, FirstListedSpans(sin), 1)

\* C8, amended: the result is the text with [REDACTED] in place of every
\* occurrence (letter case aside) of a listed phrase that overlaps no
\* redacted occurrence of an earlier-listed phrase, and every other
\* character kept in order; so an occurrence that overlaps none of another
\* phrase is always redacted, and of two overlapping occurrences the
\* first-listed is redacted unless a still earlier phrase's redaction
\* already broke it.
C8_AppliedInOrder ==
    Len(sout) >= 1 =>
        sout[1] = RenderFrom(sin, AppliedSpans(sin, Len(patterns)), 1)

C8_Witness ==
    /\ Len(sout) >= 1 /\ sin = ChainText /\ sout[1] = ChainResult

\* ------------------------------------------------------ the PDF renderer

\* what generate_pdf_bytes leaves behind: the value it returned (NoBytes for
\* None) and the exception that left it (NoExc when it returned)
NoBytes ==
    [none |-> TRUE, font |-> "", title |-> "", lang |-> "", content |-> <<>>,
     body |-> <<>>]

\* the calls on the FPDF object that put something on the page
Ln(h) ==
    [op |-> "ln", h |-> h, text |-> <<>>, style |-> "", size |-> 0,
     align |-> "", shaped |-> FALSE]
Cell(h, text, style, size, align, shaped) ==
    [op |-> "cell", h |-> h, text |-> text, style |-> style, size |-> size,
     align |-> align, shaped |-> shaped]
MultiCell(h, text, style, size, align, shaped) ==
    [op |-> "multi_cell", h |-> h, text |-> text, style |-> style,
     size |-> size, align |-> align, shaped |-> shaped]
Rule ==
    [op |-> "line", h |-> 0, text |-> <<>>, style |-> "", size |-> 0,
     align |-> "", shaped |-> FALSE]

\* is_header = line.startswith('#') or line.startswith('**')
IsHeaderAnyMarker(line) == StartsWith(line, <<"#">>) \/ StartsWith(line, <<"*">>)
IsHeader(line) == StartsWith(line, <<"#">>) \/ StartsWith(line, <<"*", "*">>)

\* re.sub(r'^[*#]+\s*', '', line)
StripMarkers(line) ==
    LET m == Span(line, {"*", "#"})
        rest == SubSeq(line, m + 1, Len(line))
    IN  IF m = 0 THEN line
        ELSE SubSeq(rest, Span(rest, Spaces) + 1, Len(rest))

\* clean_line = re.sub(r'^[*#]+\s*', '', line).replace('**', '').strip()
CleanLine(line) == Strip(Remove(StripMarkers(line), <<"*", "*">>))

\* one pass of "for line in lines:": the calls it makes on the FPDF object
LayoutLine(raw, lang, custom) ==
    LET line == Strip(raw)
        clean_line == CleanLine(line)
        shaped == lang = "Arabic" /\ custom
        align == IF shaped THEN "R" ELSE "L"
    IN  IF line = <<>> THEN <<Ln(5)>>
        ELSE IF IsHeader(line)
        THEN <<Ln(5), Cell(10, clean_line, "B", 14, align, shaped)>>
             \o (IF StartsWith(line, <<"#">>) THEN <<Rule>> ELSE <<>>)
             \o <<Ln(2)>>
        ELSE <<MultiCell(8, clean_line, "", 11, align, shaped)>>

\* lines = content.split('\n'); for line in lines: ...
LayoutLines(content, lang, custom) ==
    LET lines == Split(content, "\n")
    IN  [i \in 1..Len(lines) |-> LayoutLine(lines[i], lang, custom)]

\* except Exception as e: logging.error(...); return None
PdfExceptReraise(e) == [value |-> NoBytes, raised |-> e, log |-> <<>>]
PdfExcept(e) ==
    IF IsInstance(e.cls, "Exception")
    THEN [value |-> NoBytes, raised |-> NoExc,
          log |-> Logged("ERROR", "PDF Generation Error: ", e)]
    ELSE [value |-> NoBytes, raised |-> e, log |-> <<>>]

\* the statements of the try block, in order; each may raise
PdfSteps == <<"PDFReport", "add_page", "title", "lines", "output">>

NoPdfFault == [at |-> "none", exc |-> NoExc]

\* PDFReport.__init__: a font file was found and both add_font calls went
\* through; an exception in add_font is logged there and the built-in font
\* is used
has_custom_font(env) == env.font_found /\ env.fault.at # "add_font"

\* the step at which the try block is left by an exception ("none": it runs
\* to its return statement)
PdfRaisedAt(env) ==
    IF \E i \in 1..Len(PdfSteps) : PdfSteps[i] = env.fault.at
    THEN env.fault.at ELSE "none"

generate_pdf_bytes(content, title, lang, env) ==
    IF PdfRaisedAt(env) # "none" THEN PdfExcept(env.fault.exc)
    ELSE [value |-> [none |-> FALSE,
                     font |-> IF has_custom_font(env) THEN "CustomFont"
                              ELSE "Arial",
                     title |-> title, lang |-> lang, content |-> content,
                     body |-> LayoutLines(content, lang,
                                          has_custom_font(env))],
          raised |-> NoExc, log |-> <<>>]

\* the narratives the renderer is applied to: every text of at most
\* MaxContentLen characters over markers, blank, letter and line break
MaxContentLen == 5

LineChars == {"#", "*", " ", "a", "\n"}

RenderContents == UNION { [1..n -> LineChars] : n \in 0..MaxContentLen }

RenderEnvs ==
    [font_found : BOOLEAN,
     fault : { NoPdfFault,
               [at |-> "lines",
                exc |-> [cls |-> "UnicodeEncodeError",
                         msg |-> "'latin-1' codec can't encode"]] }]

NoRenderIn ==
    [content |-> <<>>, title |-> "", lang |-> "",
     env |-> [font_found |-> FALSE, fault |-> NoPdfFault]]
NoRender == [value |-> NoBytes, raised |-> NoExc, log |-> <<>>]

\* pdf_bytes = generate_pdf_bytes(str(result), t["pdf_title"], lang=language,
\* t_dict=t)
Render ==
    /\ rpc = "call"
    /\ rout' = generate_pdf_bytes(rin.content, rin.title, rin.lang, rin.env)
    /\ rpc' = "returned"
    /\ UNCHANGED <<rin, vvars, svars, avars>>


\* ------------------------------------------------- the Streamlit script

NoFile == [name |-> <<>>, size |-> 0, content |-> <<>>, pos |-> 0, cells |-> <<>>]
NoTable == [loaded |-> FALSE, cells |-> <<>>]
NoPdf == [called |-> FALSE,
          env |-> [font_found |-> FALSE, fault |-> NoPdfFault],
          ret |-> [value |-> NoBytes, raised |-> NoExc, log |-> <<>>]]

\* a string with where it comes from and how often sanitize_prompt was
\* applied on the way: a literal of the script ("template"), the objective
\* typed by the user ("goal"), the content of the uploaded file ("upload")
Literal(str) == [text |-> <<str>>, origin |-> "template", passes |-> 0]
Sanitized(v) == [v EXCEPT !.text = sanitize_prompt(v.text), !.passes = @ + 1]
\* v[:n]
Prefix(v, n) == [v EXCEPT !.text = SubSeq(v.text, 1, Min(n, Len(v.text)))]

Digits == {"0", "1", "2", "3", "4", "5", "6", "7", "8", "9"}
\* [a-zA-Z0-9] and \s of Python's re
IsAsciiAlnum(c) ==
    \/ c \in Digits
    \/ \E i \in 1..26 : c = UpperChars[i] \/ c = LowerChars[i]

\* re.sub(r'[^a-zA-Z0-9\s]', '', x).replace(' ', '_')
CleanTopic(x) ==
    LET kept == SelectSeq(x, LAMBDA c : IsAsciiAlnum(c) \/ IsSpace(c))
    IN  [i \in 1..Len(kept) |-> IF kept[i] = " " THEN "_" ELSE kept[i]]

\* datetime.date.today(), as text
Today == "2026-01-01"

\* one entry of the page: the Streamlit call, the message, its arguments
Show(how, what, args) == [how |-> how, what |-> what, args |-> args]
\* one invocation of a collaborator: which, on which blob, with what strings
Call(to, blob, payload) == [to |-> to, blob |-> blob, payload |-> payload]

\* uploaded_file = st.file_uploader(...): the widget hands over a new
\* file object, positioned at the start, on every run
FileUploader(up) == up

\* if not is_valid: ... uploaded_file = None  # Block processing / else:
AcceptedAlways(ret) == TRUE
Accepted(ret) == ret.ok

\* what pd.read_csv / pd.read_excel raise on a blob they cannot read
ParseError == [cls |-> "ValueError", msg |-> "Error tokenizing data"]

\* Tab 1: Data Upload.  flt: the I/O failure of the blob, parsed: whether the
\* tabular parser returns a table (else it raises)
Tab1Block(up, flt, parsed) ==
    LET file == FileUploader(up)
        ret == validate_uploaded_file(file, flt)
        validated == Call("validate_uploaded_file", up, <<ret.ok>>)
        parser == IF EndsWith(file.name, <<".", "c", "s", "v">>)
                  THEN "read_csv" ELSE "read_excel"
    IN  IF file = NoFile
        THEN [uploaded_file |-> NoFile, df |-> NoTable, shown |-> <<>>,
              calls |-> <<>>, log |-> <<>>, aborted |-> FALSE]
        ELSE IF ret.raised # NoExc
        THEN [uploaded_file |-> ret.file, df |-> NoTable,
              shown |-> <<Show("exception", ret.raised.cls, <<ret.raised.msg>>)>>,
              calls |-> <<validated>>, log |-> <<>>, aborted |-> TRUE]
        ELSE IF ~Accepted(ret)
        THEN [uploaded_file |-> NoFile, df |-> NoTable,
              shown |-> <<Show("error", "security_warning", ret.msg)>>,
              calls |-> <<validated>>,
              log |-> Logged("WARNING",
                             "Security Alert: Invalid file upload attempt - ",
                             [cls |-> "none", msg |-> "uploaded_file.name"]),
              aborted |-> FALSE]
        ELSE IF parsed
        THEN [uploaded_file |-> [ret.file EXCEPT !.pos = ByteLen(file.content)],
              df |-> [loaded |-> TRUE, cells |-> file.cells],
              shown |-> <<Show("success", "file_uploaded", file.name),
                          Show("markdown", "data_preview", <<>>),
                          Show("dataframe", "df.head()", file.cells),
                          Show("caption", "data_stats", <<>>)>>,
              calls |-> <<validated, Call(parser, up, <<>>)>>,
              log |-> <<>>, aborted |-> FALSE]
        ELSE [uploaded_file |-> ret.file, df |-> NoTable,
              shown |-> <<Show("error", "read_error",
                  <<"Unable to process file. Please ensure it is not corrupted.">>)>>,
              calls |-> <<validated, Call(parser, up, <<>>)>>,
              log |-> Logged("ERROR", "File processing error: ", ParseError),
              aborted |-> FALSE]

\* Tab 3: Visual Insights.  charted: whether visualize_data returns (else it
\* raises, and nothing in the script catches it: the run ends there)
Tab3Block(table, charted) ==
    IF ~table.loaded
    THEN [shown |-> <<Show("info", "visuals_info", <<>>)>>, calls |-> <<>>,
          aborted |-> FALSE]
    ELSE IF charted
    THEN [shown |-> <<Show("plotly_chart", "visualize_data", <<>>)>>,
          calls |-> <<Call("visualize_data", upload, <<>>)>>,
          aborted |-> FALSE]
    ELSE [shown |-> <<Show("exception", "Exception", <<>>)>>,
          calls |-> <<Call("visualize_data", upload, <<>>)>>,
          aborted |-> TRUE]

\* if not uploaded_file or df is None: / elif not user_intent_raw:
LaunchGuard(file, table, user_intent_raw) ==
    IF file = NoFile \/ ~table.loaded THEN "err_no_file"
    ELSE IF user_intent_raw = <<>> THEN "err_no_intent"
    ELSE "launch"

\* the strings handed to Agent(...) and Task(...), each as the parts the
\* f-string or str.format puts together
Forwarded(user_intent, data_str, lang) ==
    << [field |-> "role",
        parts |-> <<Literal("Expert Analyst - "), Prefix(user_intent, 40),
                    Literal("...")>>],
       [field |-> "goal",
        parts |-> <<Literal("Provide expert insights on: "), user_intent>>],
       [field |-> "backstory",
        parts |-> <<Literal("agent_backstory: ... specifically tailored to: '"),
                    user_intent,
                    Literal("'. You deliver clear, ... recommendations.")>>],
       [field |-> "description",
        parts |-> <<Literal("**Context:** Today is "), Literal(Today),
                    Literal(". **Objective:** ... this specific request: "),
                    user_intent,
                    Literal(" **Data Snippet:** "), data_str,
                    Literal(" **Formatting Instructions:** - Write strictly in "),
                    Literal(lang),
                    Literal(". - Use professional business tone. ...")>>],
       [field |-> "expected_output",
        parts |-> <<Literal("A professional business report in "),
                    Literal(lang), Literal(".")>>] >>

\* if pdf_bytes:
Truthy(pdf_bytes) == ~pdf_bytes.none

\* except Exception as e: logging.error(f"Critical Application Error: {e}",
\* exc_info=True); st.error(t["analysis_error"]).  An exception the clause
\* does not match leaves the script, and Streamlit prints it on the page.
LaunchExceptLeak(e) ==
    [shown |-> <<Show("error", "analysis_error", <<e.msg>>)>>,
     log |-> Logged("ERROR", "Critical Application Error: ", e),
     aborted |-> FALSE]
LaunchExcept(e) ==
    IF IsInstance(e.cls, "Exception")
    THEN [shown |-> <<Show("error", "analysis_error", <<>>)>>,
          log |-> Logged("ERROR", "Critical Application Error: ", e),
          aborted |-> FALSE]
    ELSE [shown |-> <<Show("exception", e.cls, <<e.msg>>)>>,
          log |-> <<>>, aborted |-> TRUE]

\* the statements of the try block that call out of the script, in order:
\* LLM(...)/Agent(...)/Task(...)/Crew(...), my_crew.kickoff(),
\* st.markdown(result)
LaunchSteps == <<"setup", "kickoff", "result">>

NoLaunchFault == [at |-> "none", exc |-> NoExc]

\* the try block of the launch.  flt: the statement that raises and what it
\* raises (NoLaunchFault: none does); narrative: what kickoff returns; env:
\* the font files and failures generate_pdf_bytes meets
LaunchBlock(user_intent_raw, table, lang, flt, narrative, env) ==
    LET raw == [text |-> user_intent_raw, origin |-> "goal", passes |-> 0]
        user_intent == Sanitized(raw)
        triggered == IF user_intent.text # user_intent_raw
                     THEN Logged("WARNING", "Sanitization triggered on input: ",
                                 [cls |-> "none", msg |-> "user_intent_raw"])
                     ELSE <<>>
        data_str == [text |-> table.cells, origin |-> "upload", passes |-> 0]
        forwarded == Forwarded(user_intent, data_str, lang)
        kickoff == Call("kickoff", upload, forwarded)
        persona == Show("info", "agent_role", <<>>)
        report == <<Show("success", "success_msg", <<>>),
                    Show("markdown", "report_header", <<>>),
                    Show("markdown", "result", narrative)>>
        clean_topic == CleanTopic(Prefix(user_intent, 30).text)
        pdf_filename == <<"Report_">> \o clean_topic \o <<"_", Today, ".pdf">>
        made == generate_pdf_bytes(narrative, "pdf_title", lang, env)
        called == [called |-> TRUE, env |-> env, ret |-> made]
        \* the page, the calls and the PDF call up to the raising statement,
        \* then the except clause
        Caught(shown, invoked, pdfcall, e) ==
            LET h == LaunchExcept(e) IN
            [shown |-> shown \o h.shown, calls |-> invoked, pdf |-> pdfcall,
             log |-> triggered \o pdfcall.ret.log \o h.log,
             fault |-> [at |-> IF flt.at = "none" THEN "generate_pdf_bytes"
                               ELSE flt.at,
                        exc |-> e],
             aborted |-> h.aborted]
    IN  IF flt.at = "setup"
        THEN Caught(<<>>, <<>>, NoPdf, flt.exc)
        ELSE IF flt.at = "kickoff"
        THEN Caught(<<persona>>, <<kickoff>>, NoPdf, flt.exc)
        ELSE IF flt.at = "result"
        THEN Caught(<<persona, Show("success", "success_msg", <<>>),
                      Show("markdown", "report_header", <<>>)>>,
                    <<kickoff>>, NoPdf, flt.exc)
        ELSE IF made.raised # NoExc
        THEN Caught(<<persona>> \o report, <<kickoff>>, called, made.raised)
        ELSE IF Truthy(made.value)
        THEN [shown |-> <<persona>> \o report \o
                        <<Show("download_button", "download_btn", pdf_filename),
                          Show("caption", "download_help", <<>>)>>,
              calls |-> <<kickoff, Call("download_button", upload, <<made.value>>)>>,
              pdf |-> called, log |-> triggered \o made.log,
              fault |-> NoLaunchFault, aborted |-> FALSE]
        ELSE [shown |-> <<persona>> \o report \o
                        <<Show("error", "Error generating PDF report.", <<>>)>>,
              calls |-> <<kickoff>>, pdf |-> called,
              log |-> triggered \o made.log, fault |-> NoLaunchFault,
              aborted |-> FALSE]

\* Tab 2: Analysis Goal
Tab2Block(isPressed, file, table, user_intent_raw, lang, flt, narrative, env) ==
    LET guard == LaunchGuard(file, table, user_intent_raw) IN
    IF ~isPressed
    THEN [shown |-> <<>>, calls |-> <<>>, pdf |-> NoPdf, log |-> <<>>,
          fault |-> NoLaunchFault, aborted |-> FALSE]
    ELSE IF guard # "launch"
    THEN [shown |-> <<Show("error", guard, <<>>)>>, calls |-> <<>>,
          pdf |-> NoPdf, log |-> <<>>, fault |-> NoLaunchFault,
          aborted |-> FALSE]
    ELSE LaunchBlock(user_intent_raw, table, lang, flt, narrative, env)

\* -------------------------------------------- the script, run after run

Languages == {"English", "Arabic"}

Uploads ==
    { [name |-> nm, size |-> ByteLen(c), content |-> c, pos |-> 0, cells |-> t] :
        nm \in { <<"a", ".", "c", "s", "v">>, <<"A", ".", "C", "S", "V">>,
                 <<"a", ".", "x", "l", "s", "x">>, <<"a", ".", "t", "x", "t">> },
        c \in { <<[b |-> 97, n |-> 3]>>, Bytes(<<80, 75, 3, 4, 20>>),
                Bytes(<<255>>), <<[b |-> 97, n |-> SizeLimit + 1]>> },
        t \in { <<"x">>, patterns[5] } }

Goals ==
    { <<>>,
      <<"S", "u", "m", " ", "u", "p", " ", "Q", "3">>,
      <<"r", "e", "v", "e", "a", "l", " ", "k", "e", "y", "s", " ", "n",
        "o", "w">>,
      <<"T", "o", "p", " ", "5", ":", "\n", "S", "Y", "S", "T", "E", "M",
        " ", "o", "v", "e", "r", "r", "i", "d", "e", "/", ".", ".", "/",
        "x", " ", "y">> }

Narratives ==
    { <<>>,
      <<"#", " ", "S", "u", "m", "m", "a", "r", "y", "\n", "R", "e", "v",
        "e", "n", "u", "e", " ", "g", "r", "e", "w", " ", "1", "0", "%",
        ".">> }

AppFaults == { NoFault, [at |-> 2, exc |-> [cls |-> "OSError", msg |-> "read failed"]] }

PdfErrors ==
    { [cls |-> "UnicodeEncodeError", msg |-> "'latin-1' codec can't encode"],
      [cls |-> "RuntimeError", msg |-> "FPDF error"] }

\* what the LLM client and the crew raise: a rejected or throttled request,
\* an answer that cannot be used
LaunchErrors ==
    { [cls |-> "RuntimeError", msg |-> "RateLimitError: 429 quota exceeded"],
      [cls |-> "ValueError", msg |-> "Invalid response from LLM call"] }

LaunchFaults ==
    {NoLaunchFault} \cup
    [at : { LaunchSteps[i] : i \in 1..Len(LaunchSteps) }, exc : LaunchErrors]

PdfEnvs ==
    [font_found : BOOLEAN,
     fault : {NoPdfFault} \cup
             [at : {"add_font"} \cup { PdfSteps[i] : i \in 1..Len(PdfSteps) },
              exc : PdfErrors]]

\* the first run of the script in a new session
Init ==
    /\ language = "English" /\ upload = NoFile /\ goal = <<>>
    /\ pressed = FALSE /\ pc = "tab1" /\ uploaded_file = NoFile
    /\ df = NoTable /\ screen = <<>> /\ calls = <<>> /\ pdf = NoPdf
    /\ log = <<>> /\ lfault = NoLaunchFault
    /\ vfile = NoReturn.file /\ vfault = NoFault /\ vstart = NoReturn.file
    /\ vret = NoReturn /\ vpc = "idle"
    /\ sin = <<>> /\ sout = <<>>
    /\ rin = NoRenderIn /\ rout = NoRender /\ rpc = "idle"

\* every interaction with a widget starts the script again from its top:
\* uploaded_file = None, df = None, an empty page
Rerun ==
    /\ pc \in {"done"}
    /\ pc' = "tab1"
    /\ uploaded_file' = NoFile /\ df' = NoTable
    /\ screen' = <<>> /\ calls' = <<>> /\ pdf' = NoPdf /\ log' = <<>>
    /\ lfault' = NoLaunchFault
    /\ UNCHANGED <<vvars, svars, rvars>>

ChooseFile ==
    /\ Rerun
    /\ upload' \in (Uploads \cup {NoFile}) \ {upload}
    /\ pressed' = FALSE
    /\ UNCHANGED <<language, goal>>

TypeGoal ==
    /\ Rerun
    /\ goal' \in Goals \ {goal}
    /\ pressed' = FALSE
    /\ UNCHANGED <<language, upload>>

ChooseLanguage ==
    /\ Rerun
    /\ language' \in Languages \ {language}
    /\ pressed' = FALSE
    /\ UNCHANGED <<upload, goal>>

PressLaunch ==
    /\ Rerun
    /\ pressed' = TRUE
    /\ UNCHANGED <<language, upload, goal>>

Tab1 ==
    /\ pc = "tab1"
    /\ \E flt \in AppFaults, parsed \in BOOLEAN :
         LET r == Tab1Block(upload, flt, parsed) IN
         /\ uploaded_file' = r.uploaded_file
         /\ df' = r.df
         /\ screen' = screen \o r.shown
         /\ calls' = calls \o r.calls
         /\ log' = log \o r.log
         /\ pc' = IF r.aborted THEN "done" ELSE "tab3"
    /\ UNCHANGED <<widgets, pdf, lfault, vvars, svars, rvars>>

Tab3 ==
    /\ pc = "tab3"
    /\ \E charted \in BOOLEAN :
         LET r == Tab3Block(df, charted) IN
         /\ screen' = screen \o r.shown
         /\ calls' = calls \o r.calls
         /\ pc' = IF r.aborted THEN "done" ELSE "tab2"
    /\ UNCHANGED <<widgets, uploaded_file, df, pdf, log, lfault, vvars, svars, rvars>>

Tab2 ==
    /\ pc = "tab2"
    /\ \E flt \in LaunchFaults, narrative \in Narratives, env \in PdfEnvs :
         LET r == Tab2Block(pressed, uploaded_file, df, goal, language,
                            flt, narrative, env) IN
         /\ screen' = screen \o r.shown
         /\ calls' = calls \o r.calls
         /\ pdf' = r.pdf
         /\ log' = log \o r.log
         /\ lfault' = r.fault
    /\ pc' = "done"
    /\ UNCHANGED <<widgets, uploaded_file, df, vvars, svars, rvars>>

Next ==
    \/ ChooseFile \/ TypeGoal \/ ChooseLanguage \/ PressLaunch
    \/ Tab1 \/ Tab3 \/ Tab2

Spec == Init /\ [][Next]_vars

\* ---------------- the validator and the sanitizer, each on its own inputs

ValidateInit ==
    /\ \E nm \in Names, c \in Contents :
         \E sz \in {ByteLen(c), SizeLimit, SizeLimit + 1},
            p \in (0..MaxStartPos) \cup {ByteLen(c)} :
              vfile = [name |-> nm, size |-> sz, content |-> c, pos |-> p]
    /\ vfault \in Faults
    /\ vstart = vfile
    /\ vret = NoReturn
    /\ vpc = "call"
    /\ sin = <<>> /\ sout = <<>>
    /\ rin = NoRenderIn /\ rout = NoRender /\ rpc = "idle"
    /\ language = "English" /\ upload = NoFile /\ goal = <<>>
    /\ pressed = FALSE /\ pc = "off" /\ uploaded_file = NoFile
    /\ df = NoTable /\ screen = <<>> /\ calls = <<>> /\ pdf = NoPdf
    /\ log = <<>> /\ lfault = NoLaunchFault

SpecValidate == ValidateInit /\ [][Validate]_vars

SanitizeInit ==
    /\ sin \in Texts /\ sout = <<>>
    /\ rin = NoRenderIn /\ rout = NoRender /\ rpc = "idle"
    /\ vfile = NoReturn.file /\ vfault = NoFault /\ vstart = NoReturn.file
    /\ vret = NoReturn /\ vpc = "idle"
    /\ language = "English" /\ upload = NoFile /\ goal = <<>>
    /\ pressed = FALSE /\ pc = "off" /\ uploaded_file = NoFile
    /\ df = NoTable /\ screen = <<>> /\ calls = <<>> /\ pdf = NoPdf
    /\ log = <<>> /\ lfault = NoLaunchFault

SpecSanitize == SanitizeInit /\ [][Sanitize]_vars

RenderInit ==
    /\ \E c \in RenderContents, l \in Languages, e \in RenderEnvs :
          rin = [content |-> c, title |-> "pdf_title", lang |-> l, env |-> e]
    /\ rout = NoRender /\ rpc = "call"
    /\ vfile = NoReturn.file /\ vfault = NoFault /\ vstart = NoReturn.file
    /\ vret = NoReturn /\ vpc = "idle"
    /\ sin = <<>> /\ sout = <<>>
    /\ language = "English" /\ upload = NoFile /\ goal = <<>>
    /\ pressed = FALSE /\ pc = "off" /\ uploaded_file = NoFile
    /\ df = NoTable /\ screen = <<>> /\ calls = <<>> /\ pdf = NoPdf
    /\ log = <<>> /\ lfault = NoLaunchFault

SpecRender == RenderInit /\ [][Render]_vars

\* the run invoked this collaborator
Invoked(to) == \E i \in 1..Len(calls) : calls[i].to = to
\* the run's validation of the uploaded blob ended with this verdict
Validated(ok) ==
    \E i \in 1..Len(calls) :
        calls[i].to = "validate_uploaded_file" /\ calls[i].payload = <<ok>>
\* the run put this message on the page
Shown(how, what) ==
    \E i \in 1..Len(screen) : screen[i].how = how /\ screen[i].what = what

\* C1: in every run the tabular parser is invoked on a blob only after the
\* validator passed that same blob, and in a run whose validation failed
\* neither the parser nor the chart layer nor the reasoning service is
\* invoked, launch button pressed or not.
C1_ParserOnlyAfterPass ==
    /\ \A i \in 1..Len(calls) :
          calls[i].to \in {"read_csv", "read_excel"} =>
              \E j \in 1..(i - 1) :
                  /\ calls[j].to = "validate_uploaded_file"
                  /\ calls[j].blob = calls[i].blob
                  /\ calls[j].payload = <<TRUE>>
    /\ Validated(FALSE) =>
          /\ ~Invoked("read_csv") /\ ~Invoked("read_excel")
          /\ ~Invoked("visualize_data") /\ ~Invoked("kickoff")
          /\ uploaded_file = NoFile /\ ~df.loaded

C1_Witness ==
    /\ pc = "done" /\ pressed /\ goal # <<>> /\ upload # NoFile
    /\ Validated(FALSE)
    /\ Shown("error", "security_warning") /\ Shown("error", "err_no_file")
    /\ ~Invoked("kickoff")

\* C2 as stated: every string forwarded to the reasoning service that is not
\* a literal of the script (the objective in role, goal, backstory and task
\* description, the table snapshot in the task description) went through
\* sanitize_prompt exactly once before kickoff.
C2_ForwardedSanitizedOnce ==
    \A i \in 1..Len(calls) :
        calls[i].to = "kickoff" =>
            \A f \in 1..Len(calls[i].payload) :
                \A k \in 1..Len(calls[i].payload[f].parts) :
                    LET part == calls[i].payload[f].parts[k] IN
                    part.origin # "template" => part.passes = 1

\* C10: no exception leaves generate_pdf_bytes; when a statement of its try
\* block raises it returns None, the page then shows the fixed PDF error
\* message and no download button; a download is offered only for bytes of a
\* rendering in which no statement raised.
C10_PdfFailureMasked ==
    LET failed == pdf.env.fault.at \in
                      {"PDFReport", "add_page", "title", "lines", "output"}
    IN  /\ pdf.called =>
            /\ pdf.ret.raised = NoExc
            /\ failed =>
                  /\ pdf.ret.value = NoBytes
                  /\ Shown("error", "Error generating PDF report.")
                  /\ ~Shown("download_button", "download_btn")
                  /\ ~Invoked("download_button")
            /\ ~failed => ~pdf.ret.value.none
        /\ Invoked("download_button") =>
            /\ pdf.called /\ ~failed /\ ~pdf.ret.value.none
            /\ \A i \in 1..Len(calls) :
                  calls[i].to = "download_button" =>
                      calls[i].payload = <<pdf.ret.value>>

C10_Witness ==
    /\ pc = "done" /\ pdf.called /\ pdf.env.fault.at = "output"
    /\ pdf.ret.value = NoBytes
    /\ Shown("error", "Error generating PDF report.")
    /\ Shown("markdown", "result")
    /\ ~Invoked("download_button")

\* C11: when a statement of the launch's try block raises (the set-up of the
\* LLM, agent and task, my_crew.kickoff(), or the display of the result),
\* the exception is caught there: the run ends with the fixed analysis_error
\* message as the only error on the page, carrying no argument; neither the
\* exception's class nor its text is on the page, though it is in the log;
\* neither the report nor a download button is shown and no PDF was made;
\* and the script can be run again by the next interaction.
C11_LaunchFailureMasked ==
    lfault # NoLaunchFault =>
        /\ pc = "done"
        /\ Len(screen) >= 1
        /\ screen[Len(screen)] = Show("error", "analysis_error", <<>>)
        /\ \A i \in 1..Len(screen) :
              /\ screen[i].how # "exception"
              /\ screen[i].how = "error" => i = Len(screen)
              /\ screen[i].what \notin {lfault.exc.msg, lfault.exc.cls}
              /\ \A j \in 1..Len(screen[i].args) :
                    screen[i].args[j] \notin {lfault.exc.msg, lfault.exc.cls}
        /\ \E k \in 1..Len(log) :
              log[k] = [level |-> "ERROR",
                        text |-> "Critical Application Error: ",
                        exc |-> lfault.exc]
        /\ ~Shown("markdown", "result")
        /\ ~Shown("download_button", "download_btn")
        /\ ~Invoked("download_button")
        /\ ~pdf.called
        /\ ENABLED PressLaunch /\ ENABLED TypeGoal /\ ENABLED ChooseFile

C11_Witness ==
    /\ pc = "done" /\ pressed
    /\ lfault.at = "kickoff" /\ lfault.exc.cls = "RuntimeError"
    /\ Invoked("kickoff")
    /\ Shown("info", "agent_role") /\ Shown("error", "analysis_error")
    /\ Len(log) = 1

\* the narrative's lines as the loop sees them, and what each pass drew
Rendered == rpc = "returned" /\ ~rout.value.none
NarrativeLine(i) == Strip(Split(rin.content, "\n")[i])
IsHeading(ops) ==
    \E k \in 1..Len(ops) :
        ops[k].op = "cell" /\ ops[k].style = "B" /\ ops[k].size = 14
IsBody(ops) ==
    /\ Len(ops) = 1 /\ ops[1].op = "multi_cell"
    /\ ops[1].style = "" /\ ops[1].size = 11
HasRule(ops) == \E k \in 1..Len(ops) : ops[k].op = "line"
\* the line starts with a marker sequence, that is with a match of [*#]+
StartsWithMarker(line) == Span(line, {"*", "#"}) >= 1

\* C12 as stated: a non-blank line is a heading exactly when it starts with
\* a hash/asterisk marker sequence (the sequence stripped from its visible
\* text), body text otherwise; the rule is drawn exactly under headings whose
\* marker is a hash; blank lines give vertical spacing only.
C12_HeadingIffMarker ==
    Rendered =>
        \A i \in 1..Len(rout.value.body) :
            LET line == NarrativeLine(i)
                ops == rout.value.body[i]
            IN  /\ line = <<>> => ops = <<Ln(5)>>
                /\ line # <<>> =>
                      /\ IsHeading(ops) <=> StartsWithMarker(line)
                      /\ ~IsHeading(ops) => IsBody(ops)
                /\ HasRule(ops) <=> (IsHeading(ops) /\ line[1] = "#")

\* C12, amended: a non-blank line is a heading exactly when it starts with a
\* hash or with two asterisks, body text otherwise (so a line starting with
\* one asterisk alone is body text, although that asterisk is stripped from
\* its visible text); the rule is drawn exactly under headings that start
\* with a hash; blank lines give vertical spacing only; the visible text of
\* a line has no marker pair left and is the line itself when the line has
\* no asterisk and no hash.
C12_HeadingIffHashOrPair ==
    Rendered =>
        /\ Len(rout.value.body) = Len(Split(rin.content, "\n"))
        /\ \A i \in 1..Len(rout.value.body) :
            LET line == NarrativeLine(i)
                ops == rout.value.body[i]
                pair == line # <<>> /\ line[1] = "*"
                        /\ Len(line) >= 2 /\ line[2] = "*"
                hash == line # <<>> /\ line[1] = "#"
            IN  /\ line = <<>> => ops = <<Ln(5)>>
                /\ line # <<>> =>
                      /\ IsHeading(ops) <=> (hash \/ pair)
                      /\ ~IsHeading(ops) => IsBody(ops)
                      /\ \A k \in 1..Len(ops) :
                            ops[k].op \in {"cell", "multi_cell"} =>
                                /\ \A j \in 1..(Len(ops[k].text) - 1) :
                                      ~(ops[k].text[j] = "*"
                                        /\ ops[k].text[j + 1] = "*")
                                /\ (\A j \in 1..Len(line) :
                                        line[j] \notin {"*", "#"})
                                      => ops[k].text = line
                /\ HasRule(ops) <=> hash

\* a rendered narrative with a line that starts with a single asterisk (body
\* text with its marker stripped), a heading with a rule and a blank line
C12_Witness ==
    /\ Rendered
    /\ \E i \in 1..Len(rout.value.body) :
          /\ StartsWithMarker(NarrativeLine(i))
          /\ IsBody(rout.value.body[i])
          /\ rout.value.body[i][1].text = <<"a">>
    /\ \E i \in 1..Len(rout.value.body) :
          IsHeading(rout.value.body[i]) /\ HasRule(rout.value.body[i])
    /\ \E i \in 1..Len(rout.value.body) : NarrativeLine(i) = <<>>

\* C13 as stated: the name offered for the download is Report_<topic>_<date>.pdf
\* where <topic> has at most 30 characters, each an ASCII letter, a digit or
\* an underscore (no white space, no line break, no path separator).
C13_TopicIsSafe ==
    \A i \in 1..Len(screen) :
        screen[i].how = "download_button" =>
            LET file_name == screen[i].args
                n == Len(file_name)
                topic == SubSeq(file_name, 2, n - 3)
            IN  /\ n >= 4
                /\ file_name[1] = "Report_" /\ file_name[n - 2] = "_"
                /\ file_name[n - 1] = Today /\ file_name[n] = ".pdf"
                /\ Len(topic) <= 30
                /\ \A j \in 1..Len(topic) :
                      IsAsciiAlnum(topic[j]) \/ topic[j] = "_"

\* C14 as stated: a blob that passed validation under a name ending, in any
\* letter case, in .csv (the UTF-8 check applied) is handed to read_csv and
\* never to read_excel; one that passed under a name ending in .xlsx (the
\* ZIP magic check applied) is handed to read_excel.
C14_ParserMatchesValidation ==
    \A i \in 1..Len(calls) :
        calls[i].to \in {"read_csv", "read_excel"} =>
            /\ \E j \in 1..(i - 1) :
                  /\ calls[j].to = "validate_uploaded_file"
                  /\ calls[j].blob = calls[i].blob
                  /\ calls[j].payload = <<TRUE>>
            /\ IsCsvName(calls[i].blob.name) => calls[i].to = "read_csv"
            /\ IsXlsxName(calls[i].blob.name) => calls[i].to = "read_excel"

====
